---------------------------- MODULE Spec2Model ----------------------------
(***************************************************************************)
(* A model of the CHIP-8 virtual machine of src/src/chip8.rs: the Chip8    *)
(* struct, load_rom, run (one fetch-decode-execute step), every opcode     *)
(* handler, and the keypad operations press and reset_keys.                *)
(*                                                                         *)
(* A Rust panic (an index outside an array, unwrap on None, panic!, an     *)
(* arithmetic overflow in a build with overflow checks) ends the program:  *)
(* the variable panic then holds the message, and the other variables hold *)
(* what the struct held when the panic was raised.                         *)
(***************************************************************************)
EXTENDS Integers, Sequences, FiniteSets, TLC

VARIABLES regs, i, dt, st, pc, inst, jmp, keys, mem, stack, buffer,
          panic, overflow_checks, loads, rom, prev, calls

vars == <<regs, i, dt, st, pc, inst, jmp, keys, mem, stack, buffer,
          panic, overflow_checks, loads, rom, prev, calls>>

-----------------------------------------------------------------------------
(* Sizes fixed by the program.                                             *)

MEM_SIZE == 4096
NUM_REGS == 16
NUM_KEYS == 16
SCREEN_CELLS == 2048
SCREEN_WIDTH == 64
ROM_BASE == 512
VF == 15

(* Bounds of the model.                                                    *)

\* the longest call stack the model follows
MaxStack == 3
\* how many times the host loads another program over the first
MaxReloads == 1

U8 == 256
U16 == 65536

-----------------------------------------------------------------------------
(* Bitwise operations on unsigned integers.                                *)

RECURSIVE BitAnd(_, _)
BitAnd(a, b) ==
    IF a = 0 \/ b = 0 THEN 0
    ELSE (a % 2) * (b % 2) + 2 * BitAnd(a \div 2, b \div 2)

RECURSIVE BitOr(_, _)
BitOr(a, b) ==
    IF a = 0 THEN b
    ELSE IF b = 0 THEN a
    ELSE (IF a % 2 = 1 \/ b % 2 = 1 THEN 1 ELSE 0) + 2 * BitOr(a \div 2, b \div 2)

RECURSIVE BitXor(_, _)
BitXor(a, b) ==
    IF a = 0 THEN b
    ELSE IF b = 0 THEN a
    ELSE ((a + b) % 2) + 2 * BitXor(a \div 2, b \div 2)

RECURSIVE Pow2(_)
Pow2(k) == IF k = 0 THEN 1 ELSE 2 * Pow2(k - 1)

\* a >> k
Shr(a, k) == a \div Pow2(k)

\* (b) as u8 of a bool
BoolU8(b) == IF b THEN 1 ELSE 0

-----------------------------------------------------------------------------
(* The font table.                                                         *)

FONT_SET ==
    << 240, 144, 144, 144, 240,
        32,  96,  32,  32, 112,
       240,  16, 240, 128, 240,
       240,  16, 240,  16, 240,
       144, 144, 240,  16,  16,
       240, 128, 240,  16, 240,
       240, 128, 240, 144, 240,
       240,  16,  32,  64,  64,
       240, 144, 240, 144, 240,
       240, 144, 240,  16, 240,
       240, 144, 240, 144, 144,
       224, 144, 224, 144, 224,
       240, 128, 128, 128, 128,
       224, 144, 144, 144, 224,
       240, 128, 240, 128, 240,
       240, 128, 240, 128, 128 >>

-----------------------------------------------------------------------------
(* Instruction::decode and Opcodes (instruction.rs): the operand fields    *)
(* are projections of the 16-bit word, and the word is classified by its   *)
(* nibble pattern.  "NONE" stands for a word that no handled operation     *)
(* matches.                                                                *)

Classify(raw) ==
    LET top == raw \div 4096
        n4  == raw % 16
        kk8 == raw % 256
    IN  CASE raw = 224 -> "CLS"
          [] raw = 238 -> "RET"
          [] top = 1 -> "JMP"
          [] top = 2 -> "CALL"
          [] top = 3 -> "SE_VB"
          [] top = 4 -> "SNE_VB"
          [] top = 5 /\ n4 = 0 -> "SE_VV"
          [] top = 6 -> "LD_VB"
          [] top = 7 -> "ADD_VB"
          [] top = 8 /\ n4 = 0 -> "LD_VV"
          [] top = 8 /\ n4 = 1 -> "OR"
          [] top = 8 /\ n4 = 2 -> "AND"
          [] top = 8 /\ n4 = 3 -> "XOR"
          [] top = 8 /\ n4 = 4 -> "ADD_VV"
          [] top = 8 /\ n4 = 5 -> "SUB"
          [] top = 8 /\ n4 = 6 -> "SHR"
          [] top = 8 /\ n4 = 7 -> "SUBN"
          [] top = 8 /\ n4 = 14 -> "SHL"
          [] top = 9 /\ n4 = 0 -> "SNE_VV"
          [] top = 10 -> "LD_IA"
          [] top = 11 -> "JMP_VA"
          [] top = 12 -> "RND"
          [] top = 13 -> "DRW"
          [] top = 14 /\ kk8 = 158 -> "SKP"
          [] top = 14 /\ kk8 = 161 -> "SKNP"
          [] top = 15 /\ kk8 = 7 -> "LD_VDT"
          [] top = 15 /\ kk8 = 10 -> "LD_VK"
          [] top = 15 /\ kk8 = 21 -> "LD_DTV"
          [] top = 15 /\ kk8 = 24 -> "LD_STV"
          [] top = 15 /\ kk8 = 30 -> "ADD_IV"
          [] top = 15 /\ kk8 = 41 -> "LD_FV"
          [] top = 15 /\ kk8 = 51 -> "LD_BV"
          [] top = 15 /\ kk8 = 85 -> "LD_IV"
          [] top = 15 /\ kk8 = 101 -> "LD_VI"
          [] OTHER -> "NONE"

decode(hi, lo) ==
    LET raw == hi * 256 + lo
    IN  [ opcode |-> Classify(raw),
          raw    |-> raw,
          x      |-> (raw \div 256) % 16,
          y      |-> (raw \div 16) % 16,
          n      |-> raw % 16,
          kk     |-> raw % 256,
          nnn    |-> raw % 4096 ]

\* Instruction::new()
NewInstruction == decode(0, 0)

-----------------------------------------------------------------------------
(* Panics.                                                                 *)

NoPanic == [msg |-> "none", line |-> 0, args |-> <<>>]

\* a panic raised at a source line; args are the values its message carries
Panic(m, l, a) == [msg |-> m, line |-> l, args |-> a]

\* "index out of bounds: the len is .. but the index is .."
IndexOutOfBounds(l, len, idx) == Panic("index out of bounds", l, <<len, idx>>)

\* "attempt to .. with overflow"
Overflow(l) == Panic("arithmetic overflow", l, <<>>)

\* "called Option::unwrap() on a None value"
UnwrapNone(l) == Panic("unwrap on None", l, <<>>)

Panicked(c) == c.panic.msg # "none"

-----------------------------------------------------------------------------
(* The machine as one value: the fields of struct Chip8 (screen.buffer as  *)
(* buffer), the pending panic and the build's overflow checking.  Every    *)
(* handler below maps the machine before the call to the machine after it. *)
(*                                                                         *)
(* pc is a usize.  The only place it can wrap is dec_pc followed by inc_pc *)
(* in a build without overflow checks; the wrapped value 2^w - 2 is        *)
(* written here as its residue -2, so that adding 2 gives 0 again.         *)

InMem(a) == a >= 0 /\ a < MEM_SIZE

set_pc(c, addr) == [c EXCEPT !.pc = addr]

inc_pc(c) == [c EXCEPT !.pc = @ + 2]

dec_pc(c) ==
    IF c.pc < 2 /\ c.overflow_checks
    THEN [c EXCEPT !.panic = Overflow(148)]
    ELSE [c EXCEPT !.pc = @ - 2]

\* Screen::clear (screen.rs)
cls(c) == [c EXCEPT !.buffer = [k \in 0..(SCREEN_CELLS - 1) |-> 0]]

\* ret with the empty stack ignored
ret_ignores_empty(c) ==
    IF c.stack = <<>>
    THEN c
    ELSE LET addr == c.stack[Len(c.stack)]
             popped == [c EXCEPT !.stack = SubSeq(@, 1, Len(@) - 1)]
         IN  [popped EXCEPT !.pc = addr % U16]

\* ret marking its assignment of pc as a jump
ret_as_jump(c) ==
    IF c.stack = <<>>
    THEN [c EXCEPT !.panic = UnwrapNone(156)]
    ELSE LET addr == c.stack[Len(c.stack)]
             popped == [c EXCEPT !.stack = SubSeq(@, 1, Len(@) - 1)]
         IN  [set_pc(popped, addr % U16) EXCEPT !.jmp = TRUE]

ret(c) ==
    IF c.stack = <<>>
    THEN [c EXCEPT !.panic = UnwrapNone(156)]
    ELSE LET addr == c.stack[Len(c.stack)]
             popped == [c EXCEPT !.stack = SubSeq(@, 1, Len(@) - 1)]
         IN  set_pc(popped, addr % U16)

jmp_op(c) == [set_pc(c, c.inst.nnn) EXCEPT !.jmp = TRUE]

jmp_va(c) ==
    LET offset == c.regs[0]
        addr == c.inst.nnn + offset
    IN  [set_pc(c, addr) EXCEPT !.jmp = TRUE]

\* call pushing the address after the CALL
call_pushes_next(c) ==
    [c EXCEPT !.stack = Append(@, c.pc + 2), !.pc = c.inst.nnn, !.jmp = TRUE]

call(c) ==
    LET new_addr == c.inst.nnn
        pushed == [c EXCEPT !.stack = Append(@, c.pc)]
    IN  [set_pc(pushed, new_addr) EXCEPT !.jmp = TRUE]

se_vb(c) == IF c.regs[c.inst.x] = c.inst.kk THEN inc_pc(c) ELSE c

se_vv(c) == IF c.regs[c.inst.x] = c.regs[c.inst.y] THEN inc_pc(c) ELSE c

sne_vb(c) == IF c.regs[c.inst.x] # c.inst.kk THEN inc_pc(c) ELSE c

sne_vv(c) == IF c.regs[c.inst.x] # c.regs[c.inst.y] THEN inc_pc(c) ELSE c

or(c) == [c EXCEPT !.regs[c.inst.x] = BitOr(@, c.regs[c.inst.y])]

and(c) == [c EXCEPT !.regs[c.inst.x] = BitAnd(@, c.regs[c.inst.y])]

xor(c) == [c EXCEPT !.regs[c.inst.x] = BitXor(@, c.regs[c.inst.y])]

add_vb(c) == [c EXCEPT !.regs[c.inst.x] = (@ + c.inst.kk) % U8]

\* add_vv with the carry taken at 255
add_vv_carry_at_255(c) ==
    LET res == c.regs[c.inst.x] + c.regs[c.inst.y]
        flagged == [c EXCEPT !.regs[VF] = BoolU8(res >= 255)]
    IN  [flagged EXCEPT !.regs[c.inst.x] = res % U8]

add_vv(c) ==
    LET idx_x == c.inst.x
        x == c.regs[idx_x]
        y == c.regs[c.inst.y]
        res == x + y
        flagged == [c EXCEPT !.regs[VF] = BoolU8(res > 255)]
    IN  [flagged EXCEPT !.regs[idx_x] = res % U8]

add_iv(c) ==
    LET x == c.regs[c.inst.x]
    IN  IF c.i + x >= U16 /\ c.overflow_checks
        THEN [c EXCEPT !.panic = Overflow(229)]
        ELSE LET flagged == [c EXCEPT !.regs[VF] = BoolU8(((c.i + x) % U16) > 255)]
             IN  [flagged EXCEPT !.i = (@ + x) % U16]

\* sub with the flag also set when nothing is subtracted from an equal value
sub_flag_on_equal(c) ==
    LET x == c.regs[c.inst.x]
        y == c.regs[c.inst.y]
        flagged == [c EXCEPT !.regs[VF] = BoolU8(x >= y)]
    IN  [flagged EXCEPT !.regs[c.inst.x] = (x - y) % U8]

sub(c) ==
    LET idx_x == c.inst.x
        x == c.regs[idx_x]
        y == c.regs[c.inst.y]
        flagged == [c EXCEPT !.regs[VF] = BoolU8(x > y)]
    IN  [flagged EXCEPT !.regs[idx_x] = (x - y) % U8]

subn(c) ==
    LET x == c.regs[c.inst.x]
        y == c.regs[c.inst.y]
        flagged == [c EXCEPT !.regs[VF] = BoolU8(y > x)]
    IN  [flagged EXCEPT !.regs[c.inst.x] = (y - x) % U8]

shr(c) ==
    LET idx_x == c.inst.x
        x == c.regs[idx_x]
        flagged == [c EXCEPT !.regs[VF] = BitAnd(x, 1)]
    IN  [flagged EXCEPT !.regs[idx_x] = Shr(x, 1)]

shl(c) ==
    LET x == c.regs[c.inst.x]
        flagged == [c EXCEPT !.regs[VF] = BoolU8(Shr(BitAnd(x, 240), 7) = 1)]
        cur == flagged.regs[c.inst.x]
    IN  IF cur * 2 >= U8 /\ c.overflow_checks
        THEN [flagged EXCEPT !.panic = Overflow(266)]
        ELSE [flagged EXCEPT !.regs[c.inst.x] = (cur * 2) % U8]

ld_vv(c) == [c EXCEPT !.regs[c.inst.x] = c.regs[c.inst.y]]

ld_vb(c) == [c EXCEPT !.regs[c.inst.x] = c.inst.kk]

\* self.mem[idx] = val, with the bounds check of the array index
mem_store(c, idx, val, line) ==
    IF Panicked(c) THEN c
    ELSE IF ~InMem(idx) THEN [c EXCEPT !.panic = IndexOutOfBounds(line, MEM_SIZE, idx)]
    ELSE [c EXCEPT !.mem[idx] = val]

ld_bv(c) ==
    LET x == c.regs[c.inst.x]
        c1 == mem_store(c, c.i, x \div 100, 280)
        c2 == mem_store(c1, c.i + 1, (x \div 100) % 10, 281)
    IN  mem_store(c2, c.i + 2, (x % 100) % 10, 282)

ld_fv(c) ==
    LET x == c.regs[c.inst.x]
    IN  IF x * 5 >= U8 /\ c.overflow_checks
        THEN [c EXCEPT !.panic = Overflow(287)]
        ELSE [c EXCEPT !.i = (x * 5) % U8]

RECURSIVE ld_vi_loop(_, _, _)
ld_vi_loop(c, x, k) ==
    IF k >= x THEN c
    ELSE IF ~InMem(c.i + k) THEN [c EXCEPT !.panic = IndexOutOfBounds(294, MEM_SIZE, c.i + k)]
    ELSE ld_vi_loop([c EXCEPT !.regs[k] = c.mem[c.i + k]], x, k + 1)

ld_vi(c) == ld_vi_loop(c, c.inst.x, 0)

RECURSIVE ld_iv_loop(_, _, _)
ld_iv_loop(c, x, k) ==
    IF k >= x \/ Panicked(c) THEN c
    ELSE ld_iv_loop(mem_store(c, c.i + k, c.regs[k], 302), x, k + 1)

\* ld_iv storing the registers V0..Vx, Vx included
ld_iv_inclusive(c) == ld_iv_loop(c, c.inst.x + 1, 0)

ld_iv(c) == ld_iv_loop(c, c.inst.x, 0)

ld_ia(c) == [c EXCEPT !.i = c.inst.nnn]

\* the scan of ld_vk: <<machine, key_pressed>> after the keys k..15
RECURSIVE ld_vk_scan(_, _, _)
ld_vk_scan(c, k, key_pressed) ==
    IF k >= NUM_KEYS THEN <<c, key_pressed>>
    ELSE IF c.keys[k] = 1
         THEN ld_vk_scan([c EXCEPT !.regs[c.inst.x] = k], k + 1, TRUE)
         ELSE ld_vk_scan(c, k + 1, key_pressed)

\* ld_vk that stops at the first pressed key
ld_vk_first_wins(c) ==
    LET pressed == { k \in 0..(NUM_KEYS - 1) : c.keys[k] = 1 }
    IN  IF pressed = {} THEN dec_pc(c)
        ELSE [c EXCEPT !.regs[c.inst.x] =
                 CHOOSE k \in pressed : \A j \in pressed : k <= j]

\* ld_vk that does not rewind pc
ld_vk_no_rewind(c) == ld_vk_scan(c, 0, FALSE)[1]

ld_vk(c) ==
    LET scanned == ld_vk_scan(c, 0, FALSE)
    IN  IF ~scanned[2] THEN dec_pc(scanned[1]) ELSE scanned[1]

ld_vdt(c) == [c EXCEPT !.regs[c.inst.x] = c.dt]

ld_dtv(c) == [c EXCEPT !.dt = c.regs[c.inst.x]]

ld_stv(c) == [c EXCEPT !.st = c.regs[c.inst.x]]

\* byte is the value thread_rng().gen::<u8>() returns
rnd(c, byte) == [c EXCEPT !.regs[c.inst.x] = BitAnd(byte, c.inst.kk)]

\* the inner loop of drw setting cells instead of flipping them
RECURSIVE drw_bits_set(_, _, _, _, _, _)
drw_bits_set(c, px, x, y, row, j) ==
    IF j >= 8 THEN c
    ELSE IF BitAnd(px, Shr(128, j)) # 0
    THEN LET raw_offset == (x + j + (y + row) * SCREEN_WIDTH) % U16
             offset == IF raw_offset >= SCREEN_CELLS
                       THEN SCREEN_CELLS - 1
                       ELSE raw_offset
             hit == IF c.buffer[offset] = 1 THEN [c EXCEPT !.regs[VF] = 1] ELSE c
             flipped == [hit EXCEPT !.buffer[offset] = 1]
         IN  drw_bits_set(flipped, px, x, y, row, j + 1)
    ELSE drw_bits_set(c, px, x, y, row, j + 1)

\* the inner loop of drw adding to a cell instead of flipping it
RECURSIVE drw_bits_add(_, _, _, _, _, _)
drw_bits_add(c, px, x, y, row, j) ==
    IF j >= 8 THEN c
    ELSE IF BitAnd(px, Shr(128, j)) # 0
    THEN LET raw_offset == (x + j + (y + row) * SCREEN_WIDTH) % U16
             offset == IF raw_offset >= SCREEN_CELLS
                       THEN SCREEN_CELLS - 1
                       ELSE raw_offset
             hit == IF c.buffer[offset] = 1 THEN [c EXCEPT !.regs[VF] = 1] ELSE c
             flipped == [hit EXCEPT !.buffer[offset] = (@ + 1) % U8]
         IN  drw_bits_add(flipped, px, x, y, row, j + 1)
    ELSE drw_bits_add(c, px, x, y, row, j + 1)

\* the inner loop of drw wrapping a cell index past the last cell around
RECURSIVE drw_bits_wrap(_, _, _, _, _, _)
drw_bits_wrap(c, px, x, y, row, j) ==
    IF j >= 8 THEN c
    ELSE IF BitAnd(px, Shr(128, j)) # 0
    THEN LET offset == ((x + j + (y + row) * SCREEN_WIDTH) % U16) % SCREEN_CELLS
             hit == IF c.buffer[offset] = 1 THEN [c EXCEPT !.regs[VF] = 1] ELSE c
             flipped == [hit EXCEPT !.buffer[offset] = BitXor(@, 1)]
         IN  drw_bits_wrap(flipped, px, x, y, row, j + 1)
    ELSE drw_bits_wrap(c, px, x, y, row, j + 1)

\* the inner loop of drw over the bits j..7 of the sprite byte px
RECURSIVE drw_bits(_, _, _, _, _, _)
drw_bits(c, px, x, y, row, j) ==
    IF j >= 8 THEN c
    ELSE IF BitAnd(px, Shr(128, j)) # 0
    THEN LET raw_offset == (x + j + (y + row) * SCREEN_WIDTH) % U16
             offset == IF raw_offset >= SCREEN_CELLS
                       THEN SCREEN_CELLS - 1
                       ELSE raw_offset
             hit == IF c.buffer[offset] = 1 THEN [c EXCEPT !.regs[VF] = 1] ELSE c
             flipped == [hit EXCEPT !.buffer[offset] = BitXor(@, 1)]
         IN  drw_bits(flipped, px, x, y, row, j + 1)
    ELSE drw_bits(c, px, x, y, row, j + 1)

\* the outer loop of drw over the sprite rows row..n-1
RECURSIVE drw_rows(_, _, _, _, _)
drw_rows(c, x, y, n, row) ==
    IF row >= n THEN c
    ELSE IF c.i + row >= U16 /\ c.overflow_checks
    THEN [c EXCEPT !.panic = Overflow(351)]
    ELSE LET addr == (c.i + row) % U16
         IN  IF ~InMem(addr)
             THEN [c EXCEPT !.panic = IndexOutOfBounds(351, MEM_SIZE, addr)]
             ELSE drw_rows(drw_bits(c, c.mem[addr], x, y, row, 0), x, y, n, row + 1)

\* drw that keeps the flag of earlier steps
drw_keeps_vf(c) ==
    drw_rows(c, c.regs[c.inst.x], c.regs[c.inst.y], c.inst.n, 0)

drw(c) ==
    LET x == c.regs[c.inst.x]
        y == c.regs[c.inst.y]
        n == c.inst.n
    IN  drw_rows([c EXCEPT !.regs[VF] = 0], x, y, n, 0)

skp(c) ==
    LET x == c.regs[c.inst.x]
    IN  IF x >= NUM_KEYS THEN [c EXCEPT !.panic = IndexOutOfBounds(385, NUM_KEYS, x)]
        ELSE IF c.keys[x] = 1 THEN inc_pc(c) ELSE c

\* sknp skipping on a pressed key
sknp_on_pressed(c) ==
    LET x == c.regs[c.inst.x]
    IN  IF x >= NUM_KEYS THEN [c EXCEPT !.panic = IndexOutOfBounds(392, NUM_KEYS, x)]
        ELSE IF c.keys[x] = 1 THEN inc_pc(c) ELSE c

sknp(c) ==
    LET x == c.regs[c.inst.x]
    IN  IF x >= NUM_KEYS THEN [c EXCEPT !.panic = IndexOutOfBounds(392, NUM_KEYS, x)]
        ELSE IF c.keys[x] = 0 THEN inc_pc(c) ELSE c

\* the match of run: the handler of the decoded operation
dispatch(c, byte) ==
    LET op == c.inst.opcode
    IN  CASE op = "CLS" -> cls(c)
          [] op = "RET" -> ret(c)
          [] op = "JMP" -> jmp_op(c)
          [] op = "JMP_VA" -> jmp_va(c)
          [] op = "CALL" -> call(c)
          [] op = "SE_VB" -> se_vb(c)
          [] op = "SE_VV" -> se_vv(c)
          [] op = "SNE_VB" -> sne_vb(c)
          [] op = "SNE_VV" -> sne_vv(c)
          [] op = "OR" -> or(c)
          [] op = "ADD_VB" -> add_vb(c)
          [] op = "ADD_VV" -> add_vv(c)
          [] op = "ADD_IV" -> add_iv(c)
          [] op = "SUB" -> sub(c)
          [] op = "SUBN" -> subn(c)
          [] op = "XOR" -> xor(c)
          [] op = "AND" -> and(c)
          [] op = "LD_VB" -> ld_vb(c)
          [] op = "LD_BV" -> ld_bv(c)
          [] op = "LD_VV" -> ld_vv(c)
          [] op = "LD_VI" -> ld_vi(c)
          [] op = "LD_VK" -> ld_vk(c)
          [] op = "LD_IV" -> ld_iv(c)
          [] op = "LD_FV" -> ld_fv(c)
          [] op = "LD_IA" -> ld_ia(c)
          [] op = "LD_VDT" -> ld_vdt(c)
          [] op = "LD_DTV" -> ld_dtv(c)
          [] op = "LD_STV" -> ld_stv(c)
          [] op = "SHL" -> shl(c)
          [] op = "SKP" -> skp(c)
          [] op = "SKNP" -> sknp(c)
          [] op = "RND" -> rnd(c, byte)
          [] op = "SHR" -> shr(c)
          [] op = "DRW" -> drw(c)
          [] OTHER -> [c EXCEPT !.panic = Panic("Unrecognized opcode", 130, <<c.inst.raw>>)]

\* the decay wrapping below zero
decay_wraps(t) == (t - 1) % U8

\* the end of run: the timers decay
decay(t) == IF t > 0 THEN t - 1 ELSE t

\* run with the timers decayed before the operation executes
run_decay_first(c, byte) ==
    IF ~InMem(c.pc) THEN [c EXCEPT !.panic = IndexOutOfBounds(88, MEM_SIZE, c.pc)]
    ELSE IF ~InMem(c.pc + 1) THEN [c EXCEPT !.panic = IndexOutOfBounds(88, MEM_SIZE, c.pc + 1)]
    ELSE LET decoded == [c EXCEPT !.inst = decode(c.mem[c.pc], c.mem[c.pc + 1]),
                                  !.jmp = FALSE,
                                  !.dt = decay(@), !.st = decay(@)]
             executed == dispatch(decoded, byte)
         IN  IF Panicked(executed) THEN [executed EXCEPT !.dt = c.dt, !.st = c.st]
             ELSE IF ~executed.jmp THEN inc_pc(executed) ELSE executed

\* run: one step
run(c, byte) ==
    IF ~InMem(c.pc) THEN [c EXCEPT !.panic = IndexOutOfBounds(88, MEM_SIZE, c.pc)]
    ELSE IF ~InMem(c.pc + 1) THEN [c EXCEPT !.panic = IndexOutOfBounds(88, MEM_SIZE, c.pc + 1)]
    ELSE LET decoded == [c EXCEPT !.inst = decode(c.mem[c.pc], c.mem[c.pc + 1]),
                                  !.jmp = FALSE]
             executed == dispatch(decoded, byte)
         IN  IF Panicked(executed) THEN executed
             ELSE LET advanced == IF ~executed.jmp THEN inc_pc(executed) ELSE executed
                  IN  [advanced EXCEPT !.dt = decay(@), !.st = decay(@)]

\* the first loop of load_rom starting one byte late
load_rom_loop_late(c, file) ==
    LET copied == [c EXCEPT !.mem = [a \in 0..(MEM_SIZE - 1) |->
                      IF a >= ROM_BASE + 1 /\ a - ROM_BASE - 1 < Len(file)
                      THEN file[a - ROM_BASE]
                      ELSE @[a]]]
    IN  IF ROM_BASE + Len(file) + 1 <= MEM_SIZE THEN copied
        ELSE [copied EXCEPT !.panic = IndexOutOfBounds(79, MEM_SIZE, MEM_SIZE)]

\* the first loop of load_rom, for the bytes read from the file: every byte
\* that has a place in the memory is copied, and the first one that has none
\* panics
load_rom_loop(c, file) ==
    LET copied == [c EXCEPT !.mem = [a \in 0..(MEM_SIZE - 1) |->
                      IF a >= ROM_BASE /\ a - ROM_BASE < Len(file)
                      THEN file[a - ROM_BASE + 1]
                      ELSE @[a]]]
    IN  IF ROM_BASE + Len(file) <= MEM_SIZE THEN copied
        ELSE [copied EXCEPT !.panic = IndexOutOfBounds(79, MEM_SIZE, MEM_SIZE)]

\* the second loop of load_rom
load_font(c) ==
    [c EXCEPT !.mem = [a \in 0..(MEM_SIZE - 1) |->
                          IF a < Len(FONT_SET) THEN FONT_SET[a + 1] ELSE @[a]]]

load_rom(c, file) ==
    LET copied == load_rom_loop(c, file)
    IN  IF Panicked(copied) THEN copied ELSE load_font(copied)

reset_keys(c) == [c EXCEPT !.keys = [k \in 0..(NUM_KEYS - 1) |-> 0]]

press(c, key) ==
    IF key >= NUM_KEYS THEN [c EXCEPT !.panic = IndexOutOfBounds(401, NUM_KEYS, key)]
    ELSE [c EXCEPT !.keys[key] = 1]

\* Chip8::new
new(checks) ==
    [ regs   |-> [k \in 0..(NUM_REGS - 1) |-> 0],
      i      |-> 0,
      dt     |-> 0,
      st     |-> 0,
      pc     |-> ROM_BASE,
      inst   |-> NewInstruction,
      jmp    |-> FALSE,
      keys   |-> [k \in 0..(NUM_KEYS - 1) |-> 0],
      mem    |-> [a \in 0..(MEM_SIZE - 1) |-> 0],
      stack  |-> <<>>,
      buffer |-> [k \in 0..(SCREEN_CELLS - 1) |-> 0],
      panic  |-> NoPanic,
      overflow_checks |-> checks ]

-----------------------------------------------------------------------------
(* The programs the host loads.  A program is written as a sequence of     *)
(* 16-bit words; Rom gives its bytes, high byte first.                     *)

Word(a, b, c, d) == ((a * 16 + b) * 16 + c) * 16 + d

\* an instruction with a 12-bit address, and one with a register and a byte
WordA(a, nnn) == a * 4096 + nnn
WordB(a, x, kk) == (a * 16 + x) * 256 + kk

RECURSIVE Rom(_)
Rom(words) ==
    IF words = <<>> THEN <<>>
    ELSE <<Head(words) \div 256, Head(words) % 256>> \o Rom(Tail(words))

\* subroutines: nested calls, returns, and a return on the empty stack
CallRoms ==
    { Rom(<< WordA(2, 518), WordB(6, 0, 1), 238,
             WordA(2, 522), 238, WordB(7, 1, 1), 238 >>),
      Rom(<< WordA(2, 512) >>),
      Rom(<< WordB(6, 0, 2), WordB(15, 0, 21), 238 >>) }

\* waiting for a key: at 0x200, and at address 0 after the program wrote
\* the word there
KeyRoms ==
    { Rom(<< WordB(6, 4, 9), WordB(15, 2, 10), WordB(7, 2, 1) >>),
      Rom(<< WordB(6, 0, 10), WordA(10, 1), WordB(15, 1, 85), WordA(1, 0) >>) }

\* timers: written from a register, read back, left to decay through a
\* blocked key wait, a skip, a call and a jump loop
TimerRoms ==
    { Rom(<< WordB(6, 0, d), WordB(15, 0, 21), WordB(6, 1, s), WordB(15, 1, 24),
             WordB(15, 2, 7), WordB(15, 3, 10), WordB(3, 2, d), WordA(2, 532),
             WordB(15, 4, 7), WordA(1, 530), 238 >>)
      : <<d, s>> \in {<<0, 2>>, <<1, 0>>, <<3, 5>>, <<6, 1>>} }

\* sprites: an optional first sprite that lights cells, then one sprite
\* drawn twice at the coordinates in V0 (or VF) and V1, then CLS.  Address 768
\* holds zero bytes (an empty sprite); 0, 5 and 10 hold glyphs.
DrawRoms ==
    { Rom(<< WordB(6, xr, xy[1]), WordB(6, 1, xy[2]) >>
          \o (IF pre < 0 THEN <<>> ELSE << WordA(10, pre), Word(13, xr, 1, 5) >>)
          \o << WordB(6, xr, xy[1]), WordA(10, spr), Word(13, xr, 1, n),
                Word(13, xr, 1, n), 224 >>)
      : xr \in {0, 15},
        xy \in {<<0, 0>>, <<5, 3>>, <<60, 31>>, <<255, 255>>},
        pre \in {-1, 10},
        spr \in {0, 768},
        n \in {0, 1, 2, 5} }

\* words that no operation matches, after the timers were set
BadWords == {65535, 23217, 35512, 291, 57599}

UnknownRoms ==
    { Rom(<< WordB(6, 0, 5), WordB(15, 0, 21), WordB(15, 0, 24), w >>) : w \in BadWords }

\* accesses outside the memory and the keypad
RangeRoms ==
    { Rom(<< WordB(6, 0, 7), WordB(6, 1, 8), WordB(6, 2, 9), WordA(10, 4094),
             WordB(15, 3, 85) >>),
      Rom(<< WordB(6, 0, 234), WordA(10, 4095), WordB(15, 0, 51) >>),
      Rom(<< WordB(6, 0, 7), WordB(6, 1, 8), WordA(10, 4094), WordB(15, 2, 85),
             WordB(6, 0, 1), WordB(6, 1, 2), WordB(15, 3, 101) >>),
      Rom(<< WordB(6, 0, 255), WordA(10, 4095), WordB(15, 1, 85),
             Word(13, 1, 1, 2) >>),
      Rom(<< WordA(1, 4095) >>),
      Rom(<< WordB(6, 0, 16), WordB(14, 0, 158) >>) }

\* the register values the arithmetic programs start from
ByteSamples == {0, 1, 56, 100, 200, 255}

\* the register pairs they name
RegPairs == {<<0, 1>>, <<15, 1>>, <<1, 15>>, <<2, 2>>, <<15, 15>>}

\* register-to-register operations 8xyK, K in Ks, on sampled values
ArithRomsFor(Ks) ==
    { Rom(<< WordB(6, xy[1], a), WordB(6, xy[2], b), Word(8, xy[1], xy[2], k) >>)
      : xy \in RegPairs, a \in ByteSamples, b \in ByteSamples, k \in Ks }

\* skips: a register against a byte, a register against a register, and
\* the key a register names (also a value that names no key)
SkipRoms ==
    { Rom(<< WordB(6, x, a), WordB(op, x, kk) >>)
      : x \in {0, 15}, a \in {3, 255}, kk \in {3, 255}, op \in {3, 4} }
    \cup
    { Rom(<< WordB(6, xy[1], a), WordB(6, xy[2], b), Word(op, xy[1], xy[2], 0) >>)
      : xy \in {<<0, 1>>, <<15, 1>>, <<2, 2>>}, a \in {3, 255}, b \in {3, 255},
        op \in {5, 9} }
    \cup
    { Rom(<< WordB(6, x, a), WordB(14, x, kk) >>)
      : x \in {0, 15}, a \in {3, 12, 15, 16, 255}, kk \in {158, 161} }

\* the font address of a register value, small and past the 16 glyphs
FontRoms ==
    { Rom(<< WordB(6, x, v), WordB(15, x, 41) >>)
      : x \in {0, 15}, v \in {0, 1, 15, 51, 52, 100, 255} }

\* registers stored at I and read back from I, x1 and x2 registers at a time
BlockRoms ==
    { Rom(<< WordB(6, 0, 7), WordB(6, 1, 8), WordB(6, 2, 9), WordA(10, a),
             WordB(15, x1, 85), WordB(6, 0, 1), WordB(6, 1, 2), WordB(6, 2, 3),
             WordB(15, x2, 101) >>)
      : a \in {768, 4094}, x1 \in {0, 2, 3, 15}, x2 \in {0, 1, 3, 15} }

\* the programs that set and use the index register
IndexRoms == FontRoms \cup BlockRoms

\* the left shift 8xyE of values below and above 128
ShlRoms ==
    { Rom(<< WordB(6, x, v), Word(8, x, 1, 14) >>)
      : x \in {0, 3, 15}, v \in {0, 1, 2, 63, 64, 127, 128, 129, 192, 255} }

\* the additions 8xy4
ArithRoms == ArithRomsFor({4})

\* the subtractions 8xy5 and 8xy7
SubRoms == ArithRomsFor({5, 7})

\* one program through the remaining operations
AluRom ==
    Rom(<< WordB(6, 0, 200), WordB(6, 1, 100), Word(8, 0, 1, 4), Word(8, 0, 1, 5),
           Word(8, 0, 1, 7), Word(8, 0, 1, 1), Word(8, 0, 1, 2), Word(8, 0, 1, 3),
           Word(8, 0, 1, 6), Word(8, 1, 0, 14), Word(8, 2, 1, 0), WordB(7, 2, 100),
           Word(5, 0, 1, 0), Word(9, 0, 1, 0), WordB(4, 0, 1), WordB(3, 0, 1),
           WordB(15, 1, 41), WordB(15, 2, 30), WordA(10, 1024), WordB(15, 2, 51),
           WordB(15, 3, 101), WordB(12, 4, 3), WordB(6, 5, 3), WordB(14, 5, 158),
           WordB(14, 5, 161), WordB(6, 0, 4), WordA(11, 564), 224, 224, 224 >>)

\* the programs of the specification Spec: every operation and every panic
Roms == CallRoms \cup KeyRoms \cup TimerRoms \cup UnknownRoms \cup RangeRoms
        \cup {AluRom}
        \cup { r \in DrawRoms : r[2] = 0 /\ r[4] \in {0, 31} }

\* the programs that are loaded over one another; the last is one byte
\* longer than the memory above 0x200
ReloadRoms ==
    { Rom(<< WordB(6, 0, 171), WordA(10, 3), WordB(15, 1, 85), WordA(10, 514),
             WordB(15, 1, 85) >>),
      Rom(<< WordA(10, 516), WordB(15, 2, 85), 224, 224, 224, 224 >>),
      Rom(<< WordB(6, 0, 7) >>),
      [k \in 1..(MEM_SIZE - ROM_BASE + 1) |-> 1] }

\* the keys the host presses
PressKeys == {3, 12}

-----------------------------------------------------------------------------
(* The state: the fields of the machine, and beside them loads (how many   *)
(* programs were loaded), rom (the bytes of the file last loaded), prev     *)
(* (what the machine held before its last step) and calls (the calls not    *)
(* yet returned from: the address of each CALL and the stack it found).     *)

Self ==
    [ regs |-> regs, i |-> i, dt |-> dt, st |-> st, pc |-> pc, inst |-> inst,
      jmp |-> jmp, keys |-> keys, mem |-> mem, stack |-> stack,
      buffer |-> buffer, panic |-> panic, overflow_checks |-> overflow_checks ]

\* the machine becomes c
Becomes(c) ==
    /\ regs' = c.regs
    /\ i' = c.i
    /\ dt' = c.dt
    /\ st' = c.st
    /\ pc' = c.pc
    /\ inst' = c.inst
    /\ jmp' = c.jmp
    /\ keys' = c.keys
    /\ mem' = c.mem
    /\ stack' = c.stack
    /\ buffer' = c.buffer
    /\ panic' = c.panic
    /\ overflow_checks' = c.overflow_checks

\* prev: what the machine held before its last step (valid once a step was
\* taken since the last load)
Snapshot(ok) ==
    [ valid |-> ok, regs |-> regs, i |-> i, dt |-> dt, st |-> st, pc |-> pc,
      stack |-> stack, buffer |-> buffer, inst |-> inst ]

Init ==
    /\ \E checks \in BOOLEAN :
          LET c == new(checks)
          IN  /\ regs = c.regs
              /\ i = c.i
              /\ dt = c.dt
              /\ st = c.st
              /\ pc = c.pc
              /\ inst = c.inst
              /\ jmp = c.jmp
              /\ keys = c.keys
              /\ mem = c.mem
              /\ stack = c.stack
              /\ buffer = c.buffer
              /\ panic = c.panic
              /\ overflow_checks = c.overflow_checks
    /\ loads = 0
    /\ rom = <<>>
    /\ prev = [ valid |-> FALSE, regs |-> new(TRUE).regs, i |-> 0, dt |-> 0,
                st |-> 0, pc |-> ROM_BASE, stack |-> <<>>,
                buffer |-> new(TRUE).buffer, inst |-> NewInstruction ]
    /\ calls = <<>>

\* the host loads one of the programs R into the new machine
LoadRomFrom(R) ==
    /\ panic = NoPanic
    /\ loads = 0
    /\ \E file \in R : rom' = file /\ Becomes(load_rom(Self, file))
    /\ loads' = loads + 1
    /\ prev' = [prev EXCEPT !.valid = FALSE]
    /\ UNCHANGED calls

LoadRom == LoadRomFrom(Roms)

LoadDraw == LoadRomFrom(DrawRoms)

LoadArith == LoadRomFrom(ArithRoms)

LoadFirst == LoadRomFrom(ReloadRoms)

LoadSub == LoadRomFrom(SubRoms)

LoadShl == LoadRomFrom(ShlRoms)

LoadIndex == LoadRomFrom(IndexRoms)

LoadSkip == LoadRomFrom(SkipRoms)

\* the host loads another program into a machine that holds one
Reload ==
    /\ panic = NoPanic
    /\ loads > 0
    /\ loads <= MaxReloads
    /\ \E file \in ReloadRoms : rom' = file /\ Becomes(load_rom(Self, file))
    /\ loads' = loads + 1
    /\ prev' = [prev EXCEPT !.valid = FALSE]
    /\ UNCHANGED calls

\* the operation the word at pc decodes to ("NONE" also when pc is outside
\* the memory)
NextOp ==
    IF InMem(pc) /\ InMem(pc + 1) THEN decode(mem[pc], mem[pc + 1]).opcode ELSE "NONE"

\* the bytes the random generator may return to the next step
RandomBytes == IF NextOp = "RND" THEN 0..(U8 - 1) ELSE {0}

\* calls after a step: a completed CALL opens a call, recording its address
\* and the stack it found; a completed RET closes the call opened last
OpenCalls ==
    IF panic' # NoPanic THEN calls
    ELSE IF NextOp = "CALL" THEN Append(calls, [at |-> pc, below |-> stack])
    ELSE IF NextOp = "RET" THEN SubSeq(calls, 1, Len(calls) - 1)
    ELSE calls

\* the host runs one step
Run ==
    /\ panic = NoPanic
    /\ \E byte \in RandomBytes :
          LET c == run(Self, byte)
          IN  /\ Len(c.stack) <= MaxStack
              /\ Becomes(c)
    /\ prev' = Snapshot(TRUE)
    /\ calls' = OpenCalls
    /\ UNCHANGED <<loads, rom>>

\* the host reports a key as pressed
Press ==
    /\ panic = NoPanic
    /\ \E key \in PressKeys : Becomes(press(Self, key))
    /\ UNCHANGED <<loads, rom, prev, calls>>

\* the host clears the keypad
ResetKeys ==
    /\ panic = NoPanic
    /\ Becomes(reset_keys(Self))
    /\ UNCHANGED <<loads, rom, prev, calls>>

Next == LoadRom \/ Run \/ Press \/ ResetKeys

Spec == Init /\ [][Next]_vars

NextDraw == LoadDraw \/ Run

\* the sprite programs
SpecDraw == Init /\ [][NextDraw]_vars

NextArith == LoadArith \/ Run

\* the arithmetic programs
SpecArith == Init /\ [][NextArith]_vars

NextSkip == LoadSkip \/ Run \/ Press \/ ResetKeys

\* the skip programs, with the keypad
SpecSkip == Init /\ [][NextSkip]_vars

NextIndex == LoadIndex \/ Run

\* the programs on the index register
SpecIndex == Init /\ [][NextIndex]_vars

NextShl == LoadShl \/ Run

\* the shift programs
SpecShl == Init /\ [][NextShl]_vars

NextSub == LoadSub \/ Run

\* the subtraction programs
SpecSub == Init /\ [][NextSub]_vars

NextReload == LoadFirst \/ Reload \/ Run

\* programs loaded over one another
SpecReload == Init /\ [][NextReload]_vars

-----------------------------------------------------------------------------
(* Reading a step.                                                         *)

\* the word at pc can be fetched
Fetchable == InMem(pc) /\ InMem(pc + 1)

\* the instruction the next step decodes (where Fetchable)
NextInst == decode(mem[pc], mem[pc + 1])

\* a step that ran to its end
Completed == Run /\ panic' = NoPanic

\* a completed step of the operation op
StepOf(op) == NextOp = op /\ Completed

NoKeyPressed == \A k \in 0..(NUM_KEYS - 1) : keys[k] = 0

Top(s) == s[Len(s)]

-----------------------------------------------------------------------------
(* C1, as stated: after a CALL at address A with target T the top of the   *)
(* stack is A+2 and pc = T; after a RET pc is exactly the popped value.    *)
C1_AsStated ==
    [][ /\ StepOf("CALL") => Top(stack') = pc + 2 /\ pc' = NextInst.nnn
        /\ StepOf("RET") => pc' = Top(stack) ]_vars

(* C1, amended: after a CALL at address A with target T the stack is the   *)
(* old stack with A (the address of the CALL itself) pushed and pc = T;    *)
(* a RET pops the top of the stack and ends with pc = popped value + 2.    *)
C1_CallRet ==
    [][ /\ StepOf("CALL") => stack' = Append(stack, pc) /\ pc' = NextInst.nnn
        /\ StepOf("RET") =>
              /\ stack' = SubSeq(stack, 1, Len(stack) - 1)
              /\ pc' = Top(stack) + 2 ]_vars

\* a RET has completed under two nested calls
C1_Witness ==
    /\ panic = NoPanic
    /\ prev.valid
    /\ inst.opcode = "RET"
    /\ Len(prev.stack) = 2
    /\ pc = Top(prev.stack) + 2

(* C2: while the instruction at pc is LD_VK and no key is pressed, no step *)
(* of the machine or the host changes pc or a general register; a step     *)
(* that moves pc off an LD_VK is taken with a key pressed, and ends at     *)
(* pc + 2.                                                                 *)
C2_BlockUntilKey ==
    [][ NextOp = "LD_VK" =>
          /\ NoKeyPressed => pc' = pc /\ regs' = regs
          /\ pc' # pc => ~NoKeyPressed /\ Run /\ pc' = pc + 2 ]_vars

\* a blocked LD_VK has run and the machine is back on it, no key pressed
C2_Witness ==
    /\ panic = NoPanic
    /\ prev.valid
    /\ inst.opcode = "LD_VK"
    /\ NextOp = "LD_VK"
    /\ prev.pc = pc
    /\ NoKeyPressed

(* C3: every completed step ends with each timer one below the value it    *)
(* held when the operation had executed (the register written by LD_DTV or *)
(* LD_STV in that step, otherwise the value before the step) if that value *)
(* is non-zero, and at 0 otherwise; the timers stay within 0..255.         *)
C3_TimerDecay ==
    [][ Completed =>
          LET d == IF NextOp = "LD_DTV" THEN regs[NextInst.x] ELSE dt
              s == IF NextOp = "LD_STV" THEN regs[NextInst.x] ELSE st
          IN  /\ dt' = IF d > 0 THEN d - 1 ELSE 0
              /\ st' = IF s > 0 THEN s - 1 ELSE 0
              /\ dt' \in 0..255 /\ st' \in 0..255 ]_vars

\* a step other than a timer write found DT at 0 and left it there, while ST
\* went down by one
C3_Witness ==
    /\ panic = NoPanic
    /\ prev.valid
    /\ inst.opcode \notin {"LD_DTV", "LD_STV"}
    /\ prev.dt = 0 /\ dt = 0
    /\ prev.st > 0 /\ st = prev.st - 1

(* C4: a completed LD_DTV with Vx = v ends with DT = v - 1 when v > 0 and  *)
(* DT = 0 when v = 0, likewise LD_STV for ST; a completed LD_VDT leaves in *)
(* Vx the DT of before the step.                                           *)
C4_WriteThenDecay ==
    [][ /\ StepOf("LD_DTV") =>
              dt' = IF regs[NextInst.x] > 0 THEN regs[NextInst.x] - 1 ELSE 0
        /\ StepOf("LD_STV") =>
              st' = IF regs[NextInst.x] > 0 THEN regs[NextInst.x] - 1 ELSE 0
        /\ StepOf("LD_VDT") => regs'[NextInst.x] = dt ]_vars

\* LD_DTV has run with Vx = 3 and DT is 2
C4_Witness ==
    /\ panic = NoPanic
    /\ prev.valid
    /\ inst.opcode = "LD_DTV"
    /\ prev.regs[inst.x] = 3
    /\ dt = 2

-----------------------------------------------------------------------------
(* Reading a draw: the sprite of n rows at address a, drawn at (x, y).     *)

\* bit j (0 the most significant) of sprite row r is set
SpriteBit(a, r, j) == (mem[a + r] \div Pow2(7 - j)) % 2 = 1

\* the cell that bit j of row r is drawn to
TargetCell(x, y, r, j) ==
    IF x + j + (y + r) * 64 >= 2048 THEN 2047 ELSE x + j + (y + r) * 64

\* the cells the sprite's set bits are drawn to
TargetCells(a, n, x, y) ==
    { TargetCell(x, y, r, j) : <<r, j>> \in { rj \in (0..(n - 1)) \X (0..7) :
                                               SpriteBit(a, rj[1], rj[2]) } }

\* the machine has just drawn a sprite, and this step draws the same sprite
\* (same I, same height) at the same coordinates; prev is the machine before
\* the first of the two draws
SecondDraw ==
    /\ prev.valid
    /\ panic = NoPanic
    /\ inst.opcode = "DRW"
    /\ StepOf("DRW")
    /\ NextInst.n = inst.n
    /\ i = prev.i
    /\ regs[NextInst.x] = prev.regs[inst.x]
    /\ regs[NextInst.y] = prev.regs[inst.y]

(* C5, as stated: the second of two identical draws leaves every cell as   *)
(* it was before the first and ends with VF = 1, for any sprite, any       *)
(* height and any coordinates.                                             *)
C5_AsStated ==
    [][ SecondDraw => buffer' = prev.buffer /\ regs'[VF] = 1 ]_vars

(* C5, amended: the second of two identical draws leaves every cell as it  *)
(* was before the first; it ends with VF = 1 when the sprite has a set bit *)
(* and every cell the sprite is drawn to was 0 before the first draw, and  *)
(* with VF = 0 when the sprite has no set bit (height 0 or all-zero rows). *)
C5_XorSelfCancel ==
    [][ SecondDraw =>
          LET cells == TargetCells(i, inst.n, prev.regs[inst.x], prev.regs[inst.y])
          IN  /\ buffer' = prev.buffer
              /\ cells # {} /\ (\A k \in cells : prev.buffer[k] = 0) => regs'[VF] = 1
              /\ cells = {} => regs'[VF] = 0 ]_vars

\* the glyph at address 0 has been drawn twice on the clear screen from
\* (60, 31), where its cells are clamped: the screen is clear again, VF = 1
C5_Witness ==
    /\ panic = NoPanic
    /\ prev.valid
    /\ inst.opcode = "DRW" /\ prev.inst.opcode = "DRW"
    /\ inst.x = 0 /\ inst.n = 5 /\ i = 0
    /\ regs[0] = 60 /\ regs[1] = 31
    /\ regs[VF] = 1
    /\ \A k \in 0..(SCREEN_CELLS - 1) : buffer[k] = 0

-----------------------------------------------------------------------------
(* C6, as stated: a step whose word matches no operation ends in a fatal   *)
(* error that reports the raw opcode and the current pc, and advances      *)
(* neither pc nor the timers.                                              *)
C6_AsStated ==
    [][ Run /\ Fetchable /\ NextOp = "NONE" =>
          /\ panic'.msg = "Unrecognized opcode"
          /\ panic'.args = <<NextInst.raw, pc>>
          /\ pc' = pc /\ dt' = dt /\ st' = st ]_vars

(* C7: a RET step on the empty stack ends in the panic of line 156, which  *)
(* no other step raises, and leaves pc, the registers, I, the memory, both *)
(* timers, the stack and the framebuffer as they were.                     *)
C7_StackUnderflow ==
    [][ /\ Run /\ NextOp = "RET" /\ stack = <<>> =>
              /\ panic' = UnwrapNone(156)
              /\ pc' = pc /\ regs' = regs /\ i' = i /\ mem' = mem
              /\ dt' = dt /\ st' = st /\ stack' = stack /\ buffer' = buffer
        /\ panic = NoPanic /\ panic' = UnwrapNone(156) =>
              NextOp = "RET" /\ stack = <<>> ]_vars

\* a RET has met the empty stack while DT was running
C7_Witness ==
    /\ panic = UnwrapNone(156)
    /\ inst.opcode = "RET"
    /\ stack = <<>>
    /\ dt = 1

(* C8, as stated: a step that fails applies none of its effects: it leaves *)
(* the memory, the registers, I, the timers, pc, the stack and the         *)
(* framebuffer as they were.                                               *)
C8_AsStated ==
    [][ Run /\ panic' # NoPanic =>
          /\ mem' = mem /\ regs' = regs /\ buffer' = buffer
          /\ i' = i /\ dt' = dt /\ st' = st /\ pc' = pc /\ stack' = stack ]_vars

(* C9: when load_rom returns, mem[0x000..0x050) is the font table and      *)
(* mem[0x200..0x200+L) is the file of length L, whatever the memory held.  *)
C9_Load ==
    [][ loads' = loads + 1 /\ panic' = NoPanic =>
          /\ \A k \in 1..80 : mem'[k - 1] = FONT_SET[k]
          /\ \A k \in 1..Len(rom') : mem'[512 + k - 1] = rom'[k] ]_vars

\* a two-byte program has just been loaded over a machine whose program had
\* written 171 into the font area and into its own third byte
C9_Witness ==
    /\ panic = NoPanic
    /\ loads = 2
    /\ ~prev.valid
    /\ Len(rom) = 2
    /\ mem[514] = 171
    /\ mem[3] = 144

(* C10, as stated: ADD_VV ends with VF = 1 if Vx + Vy > 255 and 0          *)
(* otherwise, and Vx = (Vx + Vy) mod 256, for every x and y in 0..15.      *)
C10_AsStated ==
    [][ StepOf("ADD_VV") =>
          LET sum == regs[NextInst.x] + regs[NextInst.y]
          IN  /\ regs'[VF] = IF sum > 255 THEN 1 ELSE 0
              /\ regs'[NextInst.x] = sum % 256 ]_vars

(* C10, amended: for x in 0..14 and y in 0..15 ADD_VV ends with VF = 1 if  *)
(* Vx + Vy > 255 and 0 otherwise, and Vx = (Vx + Vy) mod 256; for x = 15   *)
(* the sum overwrites the flag: VF = (VF + Vy) mod 256.                    *)
C10_AddVV ==
    [][ StepOf("ADD_VV") =>
          LET sum == regs[NextInst.x] + regs[NextInst.y]
          IN  /\ NextInst.x # 15 => regs'[VF] = IF sum > 255 THEN 1 ELSE 0
              /\ regs'[NextInst.x] = sum % 256 ]_vars

\* ADD_VV has run on V0 = 200 and V1 = 100
C10_Witness ==
    /\ panic = NoPanic
    /\ prev.valid
    /\ inst.opcode = "ADD_VV" /\ inst.x = 0 /\ inst.y = 1
    /\ prev.regs[0] = 200 /\ prev.regs[1] = 100
    /\ regs[0] = 44 /\ regs[VF] = 1

-----------------------------------------------------------------------------
(* C11, as stated: for every x and y, SUB ends with VF = 1 if Vx > Vy and  *)
(* 0 otherwise and Vx = (Vx - Vy) mod 256; SUBN ends with VF = 1 if        *)
(* Vy > Vx and 0 otherwise and Vx = (Vy - Vx) mod 256.                     *)
C11_AsStated ==
    [][ LET x == NextInst.x
            vx == regs[NextInst.x]
            vy == regs[NextInst.y]
        IN  /\ StepOf("SUB") =>
                  regs'[VF] = BoolU8(vx > vy) /\ regs'[x] = (vx - vy) % U8
            /\ StepOf("SUBN") =>
                  regs'[VF] = BoolU8(vy > vx) /\ regs'[x] = (vy - vx) % U8 ]_vars

(* C11, amended: for x in 0..14 and every y, SUB ends with VF = 1 if       *)
(* Vx > Vy and 0 otherwise and Vx = (Vx - Vy) mod 256, and SUBN ends with  *)
(* VF = 1 if Vy > Vx and 0 otherwise and Vx = (Vy - Vx) mod 256; for       *)
(* x = 15 the difference is written over the flag: VF ends as the          *)
(* difference mod 256.                                                     *)
C11_SubSubn ==
    [][ LET x == NextInst.x
            vx == regs[NextInst.x]
            vy == regs[NextInst.y]
        IN  /\ StepOf("SUB") =>
                  /\ regs'[x] = (vx - vy) % U8
                  /\ x # VF => regs'[VF] = BoolU8(vx > vy)
            /\ StepOf("SUBN") =>
                  /\ regs'[x] = (vy - vx) % U8
                  /\ x # VF => regs'[VF] = BoolU8(vy > vx) ]_vars

\* SUB V0, V1 with V0 = 100 and V1 = 100 has ended with V0 = 0 and VF = 0
C11_Witness ==
    /\ panic = NoPanic
    /\ prev.valid
    /\ inst.opcode = "SUB"
    /\ inst.x = 0
    /\ prev.regs[0] = 100
    /\ prev.regs[1] = 100
    /\ regs[0] = 0
    /\ regs[VF] = 0

-----------------------------------------------------------------------------
\* the conditional skips
SkipOps == {"SE_VB", "SNE_VB", "SE_VV", "SNE_VV", "SKP", "SKNP"}

\* key k is a key of the keypad and is pressed
KeyDown(k) == k < NUM_KEYS /\ keys[k] = 1

\* the condition of the skip op on the state before its step
SkipCond(op) ==
    LET vx == regs[NextInst.x]
        vy == regs[NextInst.y]
    IN  CASE op = "SE_VB" -> vx = NextInst.kk
          [] op = "SNE_VB" -> vx # NextInst.kk
          [] op = "SE_VV" -> vx = vy
          [] op = "SNE_VV" -> vx # vy
          [] op = "SKP" -> KeyDown(vx)
          [] op = "SKNP" -> ~KeyDown(vx)

(* C12, as stated: for every register value a step of SE_VB, SNE_VB,       *)
(* SE_VV, SNE_VV, SKP or SKNP ends with pc = old pc + 4 when its condition *)
(* holds and old pc + 2 otherwise; no other outcome is possible and no     *)
(* register is changed.                                                    *)
C12_AsStated ==
    [][ \A op \in SkipOps :
          Run /\ NextOp = op =>
             /\ panic' = NoPanic
             /\ pc' = pc + (IF SkipCond(op) THEN 4 ELSE 2)
             /\ regs' = regs ]_vars

(* C12, amended: a step of SE_VB, SNE_VB, SE_VV or SNE_VV, and a step of   *)
(* SKP or SKNP with Vx in 0..15, ends with pc = old pc + 4 when its        *)
(* condition holds and old pc + 2 otherwise, and changes no register; a    *)
(* step of SKP or SKNP with Vx above 15 fails (keypad index out of range)  *)
(* and leaves pc and the registers as they were.                           *)
C12_Skips ==
    [][ \A op \in SkipOps :
          Run /\ NextOp = op =>
             IF op \in {"SKP", "SKNP"} /\ regs[NextInst.x] >= NUM_KEYS
             THEN /\ panic' # NoPanic
                  /\ pc' = pc
                  /\ regs' = regs
             ELSE /\ panic' = NoPanic
                  /\ pc' = pc + (IF SkipCond(op) THEN 4 ELSE 2)
                  /\ regs' = regs ]_vars

\* a SKP on a pressed key has skipped the next instruction
C12_Witness ==
    /\ panic = NoPanic
    /\ prev.valid
    /\ inst.opcode = "SKP"
    /\ KeyDown(regs[inst.x])
    /\ pc = prev.pc + 4

-----------------------------------------------------------------------------
(* C13, as stated: for every Vx in 0..255 a step of LD_FV ends with        *)
(* I = Vx * 5, the product taken without truncation to 8 bits, and changes *)
(* no general register.                                                    *)
C13_AsStated ==
    [][ Run /\ NextOp = "LD_FV" =>
          /\ panic' = NoPanic
          /\ i' = regs[NextInst.x] * 5
          /\ regs' = regs ]_vars

-----------------------------------------------------------------------------
(* C14, as stated: for every x and every Vx a step of SHL always           *)
(* completes, also when the doubling exceeds 255, and ends with VF = 1     *)
(* exactly when bit 7 of the old Vx was set ((Vx & 0xF0) >> 7 = 1) and     *)
(* with Vx = (2 * Vx) mod 256.                                             *)
C14_AsStated ==
    [][ Run /\ NextOp = "SHL" =>
          LET x == NextInst.x
              vx == regs[NextInst.x]
          IN  /\ panic' = NoPanic
              /\ regs'[VF] = BoolU8(Shr(BitAnd(vx, 240), 7) = 1)
              /\ regs'[x] = (2 * vx) % U8 ]_vars

-----------------------------------------------------------------------------
\* the highest index among the pressed keys (where a key is pressed)
HighestKey ==
    CHOOSE k \in 0..(NUM_KEYS - 1) :
       keys[k] = 1 /\ \A j \in (k + 1)..(NUM_KEYS - 1) : keys[j] = 0

(* C15: a step of LD_VK taken while at least one key is pressed ends with  *)
(* Vx = the highest pressed key index and pc = old pc + 2, and leaves      *)
(* every other register unchanged.                                         *)
C15_HighestKeyWins ==
    [][ Run /\ NextOp = "LD_VK" /\ ~NoKeyPressed =>
          /\ panic' = NoPanic
          /\ regs'[NextInst.x] = HighestKey
          /\ pc' = pc + 2
          /\ \A r \in 0..(NUM_REGS - 1) : r # NextInst.x => regs'[r] = regs[r] ]_vars

\* a LD_VK taken with the keys 3 and 12 pressed has stored 12
C15_Witness ==
    /\ panic = NoPanic
    /\ prev.valid
    /\ inst.opcode = "LD_VK"
    /\ keys[3] = 1
    /\ keys[12] = 1
    /\ regs[inst.x] = 12
    /\ pc = prev.pc + 2

-----------------------------------------------------------------------------
\* the set bits <<row, bit>> of the n-row sprite at address a
SetBits(a, n) == { rj \in (0..(n - 1)) \X (0..7) : SpriteBit(a, rj[1], rj[2]) }

\* how many set bits of the sprite are drawn to the cell k
Flips(k, a, n, x, y) ==
    Cardinality({ rj \in SetBits(a, n) : TargetCell(x, y, rj[1], rj[2]) = k })

\* some cell held 1 at the moment a set bit of the sprite flipped it: it was
\* lit before the draw, or an earlier bit of the same draw had lit it
Collides(a, n, x, y) ==
    \E k \in TargetCells(a, n, x, y) : buffer[k] = 1 \/ Flips(k, a, n, x, y) >= 2

(* C16: a completed DRW step ends with VF = 1 exactly when at least one    *)
(* cell that a set sprite bit is drawn to held 1 at the moment it was      *)
(* flipped, and with VF = 0 otherwise, whatever VF was before the step.    *)
C16_CollisionFlag ==
    [][ StepOf("DRW") =>
          regs'[VF] = BoolU8(Collides(i, NextInst.n, regs[NextInst.x],
                                      regs[NextInst.y])) ]_vars

\* a DRW through VF, which held the coordinate 5, has met no lit cell and
\* ended with VF = 0
C16_Witness ==
    /\ panic = NoPanic
    /\ prev.valid
    /\ inst.opcode = "DRW"
    /\ inst.x = VF
    /\ inst.n = 5
    /\ prev.regs[VF] = 5
    /\ \A k \in 0..(SCREEN_CELLS - 1) : prev.buffer[k] = 0
    /\ \E k \in 0..(SCREEN_CELLS - 1) : buffer[k] = 1
    /\ regs[VF] = 0

-----------------------------------------------------------------------------
(* C17: a completed DRW step flips each cell once for every set sprite bit *)
(* drawn to it, where bit j of row r is drawn to Vx + j + (Vy + r) * 64    *)
(* and every such index of 2048 or more is redirected to cell 2047; the    *)
(* cells no set bit is drawn to are unchanged, and the framebuffer keeps   *)
(* exactly the cells 0..2047, for all Vx and Vy.                           *)
C17_ClampNotWrap ==
    [][ StepOf("DRW") =>
          LET a == i
              n == NextInst.n
              x == regs[NextInst.x]
              y == regs[NextInst.y]
              cells == TargetCells(a, n, x, y)
          IN  buffer' = [ k \in 0..(SCREEN_CELLS - 1) |->
                            IF k \in cells
                            THEN (buffer[k] + Flips(k, a, n, x, y)) % 2
                            ELSE buffer[k] ] ]_vars

\* two rows of the glyph at address 0 drawn on the clear screen from
\* (60, 31): the first row lights the cells 2044..2047, the two set bits of
\* the second row are redirected to cell 2047, which ends lit
C17_Witness ==
    /\ panic = NoPanic
    /\ prev.valid
    /\ inst.opcode = "DRW"
    /\ inst.n = 2
    /\ i = 0
    /\ prev.regs[inst.x] = 60
    /\ prev.regs[inst.y] = 31
    /\ \A k \in 0..(SCREEN_CELLS - 1) : prev.buffer[k] = 0
    /\ \A k \in 0..(SCREEN_CELLS - 1) : buffer[k] = IF k >= 2044 THEN 1 ELSE 0

-----------------------------------------------------------------------------
(* C18: a completed LD_IV step writes mem[I + k] = Vk for k in 0..x-1 and  *)
(* nothing else of the memory, and changes no register; a completed LD_VI  *)
(* step writes Vk = mem[I + k] for k in 0..x-1, leaves Vx and the higher   *)
(* registers alone and changes no memory; neither changes I; with x = 0    *)
(* the step changes nothing but pc and the timers.                         *)
C18_BlockTransfer ==
    [][ LET x == NextInst.x
        IN  /\ StepOf("LD_IV") =>
                  /\ mem' = [ a \in 0..(MEM_SIZE - 1) |->
                                IF a >= i /\ a < i + x THEN regs[a - i] ELSE mem[a] ]
                  /\ regs' = regs
                  /\ i' = i
            /\ StepOf("LD_VI") =>
                  /\ regs' = [ k \in 0..(NUM_REGS - 1) |->
                                 IF k < x THEN mem[i + k] ELSE regs[k] ]
                  /\ mem' = mem
                  /\ i' = i
            /\ (StepOf("LD_IV") \/ StepOf("LD_VI")) /\ x = 0 =>
                  /\ UNCHANGED <<regs, i, mem, stack, buffer, keys>>
                  /\ pc' = pc + 2 ]_vars

\* V0 = 7 and V1 = 8 were stored at 0x300 and the registers overwritten; a
\* LD_VI with x = 1 has read V0 back and left V1 = 2 and V2 = 3 alone
C18_Witness ==
    /\ panic = NoPanic
    /\ prev.valid
    /\ inst.opcode = "LD_VI"
    /\ inst.x = 1
    /\ i = 768
    /\ mem[768] = 7
    /\ mem[769] = 8
    /\ prev.regs[0] = 1
    /\ regs[0] = 7
    /\ regs[1] = 2
    /\ regs[2] = 3

-----------------------------------------------------------------------------
(* C19: a RET that runs to its end closes the CALL opened last and not yet *)
(* closed; if that CALL was at address A, the RET ends with pc = A + 2,    *)
(* not at A again, and with the stack as it was immediately before the     *)
(* CALL, in depth and contents; only CALL and RET steps change the stack.  *)
C19_Resume ==
    [][ /\ StepOf("RET") =>
              /\ calls # <<>>
              /\ pc' = Top(calls).at + 2
              /\ pc' # Top(calls).at
              /\ stack' = Top(calls).below
        /\ stack' # stack => Run /\ NextOp \in {"CALL", "RET"} ]_vars

\* the inner of two nested calls (at 0x200 and at 0x206) has returned to
\* 0x208 and the stack holds the outer call alone again
C19_Witness ==
    /\ panic = NoPanic
    /\ prev.valid
    /\ inst.opcode = "RET"
    /\ prev.stack = <<512, 518>>
    /\ stack = <<512>>
    /\ pc = 520
    /\ Len(calls) = 1
    /\ calls[1].at = 512

-----------------------------------------------------------------------------
\* every cell of the framebuffer b is 0
Blank(b) == \A k \in 0..(SCREEN_CELLS - 1) : b[k] = 0

(* C20: the framebuffer is all 0 at creation; in every state reached each  *)
(* of its cells is 0 or 1; it is all 0 immediately after a completed CLS   *)
(* step; and only CLS and DRW steps change a cell.                         *)
C20_Framebuffer ==
    /\ Blank(buffer)
    /\ [][ /\ \A k \in 0..(SCREEN_CELLS - 1) : buffer'[k] \in {0, 1}
           /\ StepOf("CLS") => Blank(buffer')
           /\ buffer' # buffer => Run /\ NextOp \in {"CLS", "DRW"} ]_vars

\* a CLS step has cleared a screen with lit cells
C20_Witness ==
    /\ panic = NoPanic
    /\ prev.valid
    /\ inst.opcode = "CLS"
    /\ ~Blank(prev.buffer)
    /\ Blank(buffer)

=============================================================================
